---- MODULE Spec2Model ----
(***************************************************************************)
(* Model of the pravda-market backend: the ledger, the order book, the     *)
(* matching engine, market resolution, order cancellation and the deposit  *)
(* indexer, over a relational store with READ COMMITTED transactions.      *)
(*                                                                         *)
(* Committed database state lives in markets, orders, trades, ledger and   *)
(* tonTx.  A request handler p runs in its own session: what it has        *)
(* flushed but not committed lives in txn[p] and is invisible to the other *)
(* handlers until the commit step; the rows it holds under FOR UPDATE are  *)
(* the counter-orders of txn[p].orders and marketLock.                     *)
(***************************************************************************)
EXTENDS Integers, Sequences, FiniteSets, Bags, TLC

\* ------------------------------------------------------------------ bounds
\* Orders created in a run of SeqSpec, and in a run of Spec.
MaxOrders == 3
MaxConcOrders == 3
\* Orders created in a run of BookSpec.
MaxBookOrders == 3
\* Orders created in a run of LimitSpec, and the resting orders of its book
\* that lie beyond the trade limit of one match_order call.
MaxLimitOrders == 2
\* Orders created (or order ids taken) in a run of FaultSpec.
MaxFaultOrders == 2
MaxPolls == 2
MaxSettleOrders == 2
Unreached == 1

\* ------------------------------------------------------- program constants
MIN_ORDER_SIZE_KOPECKS == 100
MAX_ORDER_SIZE_KOPECKS == 100000000
MAX_TRADES_PER_ORDER == 50
MIN_DEPOSIT_NANOTON == 100000000
TON_TO_KOPECKS_RATE == 50000
API_RETRY_ATTEMPTS == 3
DEPOSIT_OPCODE == 1
\* PLATFORM_FEE_RATE = 0.02, kept as a percentage
PLATFORM_FEE_RATE_PCT == 2

Procs == {1, 2}
Users == {1, 2}
Markets == {1}
NoProc == 0

\* Worker processes of the application; each runs the lifespan of main.py
\* and so its own DepositIndexer over the one database.
Workers == {1, 2}

\* Chain transactions the TON API can return for the escrow address:
\* hash, memo user (telegram id = user id here) and value.
ChainTxs ==
    { [hash |-> "h1", telegram_id |-> 1, value_nanoton |-> 100000000, success |-> TRUE],
      [hash |-> "h2", telegram_id |-> 2, value_nanoton |-> 100000000, success |-> TRUE] }

VARIABLES
    markets,      \* market id -> [resolved, outcome]
    orders,       \* order id -> Order row (committed)
    trades,       \* trade id -> Trade row (committed)
    ledger,       \* bag of LedgerEntry rows (committed, append-only)
    tonTx,        \* committed TonTransaction rows (set)
    nextOrderId,  \* orders.id sequence
    nextTradeId,  \* trades.id sequence
    marketLock,   \* market id -> handler holding the row under FOR UPDATE
    pc,           \* handler -> position
    req,          \* handler -> arguments and session-cached objects
    txn,          \* handler -> flushed, uncommitted writes
    resolveOk,    \* market id -> number of resolve requests answered with success
    users,        \* telegram ids that have a User row (committed)
    indexer       \* worker process -> state of its DepositIndexer task

vars == << markets, orders, trades, ledger, tonTx, nextOrderId, nextTradeId,
           marketLock, pc, req, txn, resolveOk, users, indexer >>

\* ------------------------------------------------------------------ helpers
\* Sum of f[x] over x in S.
RECURSIVE SumFn(_, _)
SumFn(f, S) ==
    IF S = {} THEN 0
    ELSE LET x == CHOOSE y \in S : TRUE
         IN f[x] + SumFn(f, S \ {x})

\* func.sum(LedgerEntry.amount_kopecks) over the rows S of the ledger table L,
\* added up by amount and number of copies.
SumRows(L, S) ==
    LET key(e) == << e.amount_kopecks, CopiesIn(e, L) >>
        keys == { key(e) : e \in S }
    IN SumFn([k \in keys |-> k[1] * k[2] * Cardinality({ e \in S : key(e) = k })], keys)

SumLedger(L) == SumRows(L, BagToSet(L))

\* The rows a session adds to the ledger table, as a bag.
Rows(s) ==
    [e \in { s[i] : i \in DOMAIN s } |-> Cardinality({ i \in DOMAIN s : s[i] = e })]

SumAmounts(f, S) == SumFn([x \in S |-> f[x].amount_kopecks], S)

Entry(u, a, t, r) ==
    [user_id |-> u, amount_kopecks |-> a, type |-> t, reference_id |-> r]

NoReq == [op |-> "none", user |-> 0, market |-> 0, oid |-> 0, outcome |-> "none",
          cached |-> << >>, trade_ids |-> {}]
EmptyTxn == [orders |-> << >>, trades |-> << >>, ledger |-> << >>]

\* No session open in _process_transaction.
NoSession == [open |-> FALSE, hash |-> "", telegram_id |-> 0, amount_kopecks |-> 0,
              new_user |-> FALSE]

\* DepositIndexer.__init__: not running, no task.  at is the position of the
\* task, attempt and last_error the locals of _request, queue the rest of
\* the poll's transactions, session what _credit_deposit has flushed.  The
\* other fields record what happened: polls counts the iterations started,
\* sent the HTTP attempts of the request in progress, raised the exception
\* that ended the last request, last what became of the transaction handled
\* last in the current poll, failed the hashes whose processing raised, cut
\* whether stop() cancelled an iteration in flight.
NewIndexer ==
    [ _running |-> FALSE, at |-> "none", attempt |-> 0, last_error |-> "none",
      queue |-> << >>, session |-> NoSession, polls |-> 0, sent |-> 0,
      raised |-> "none", last |-> "none", failed |-> {}, cut |-> FALSE ]

Overlay(base, over) ==
    [i \in (DOMAIN base) \cup (DOMAIN over) |->
        IF i \in DOMAIN over THEN over[i] ELSE base[i]]

\* ------------------------------------------------------------------ balance
get_user_balance(user_id, L) ==
    SumRows(L, { e \in BagToSet(L) : e.user_id = user_id })

get_available_balance(user_id, L) ==
    LET total == get_user_balance(user_id, L)
    IN IF total > 0 THEN total ELSE 0

\* Variant: no balance check.
has_sufficient_balance_Always(user_id, required_kopecks, L) == TRUE

has_sufficient_balance(user_id, required_kopecks, L) ==
    get_available_balance(user_id, L) >= required_kopecks

\* --------------------------------------------------------------- validation
\* Variant: only the upper limit is checked.
validate_order_size_NoMin(amount_kopecks) ==
    amount_kopecks <= MAX_ORDER_SIZE_KOPECKS

validate_order_size(amount_kopecks) ==
    /\ amount_kopecks >= MIN_ORDER_SIZE_KOPECKS
    /\ amount_kopecks <= MAX_ORDER_SIZE_KOPECKS

\* Variant: the YES cost is rounded to the nearest kopeck.
calculate_settlement_RoundHalfUp(amount_kopecks, price_bp) ==
    LET yes_cost == (amount_kopecks * price_bp + 5000) \div 10000
    IN << yes_cost, amount_kopecks - yes_cost >>

\* Variant: each side's cost rounded down on its own.
calculate_settlement_BothFloored(amount_kopecks, price_bp) ==
    << (amount_kopecks * price_bp) \div 10000,
       (amount_kopecks * (10000 - price_bp)) \div 10000 >>

calculate_settlement(amount_kopecks, price_bp) ==
    LET yes_cost == (amount_kopecks * price_bp) \div 10000
    IN << yes_cost, amount_kopecks - yes_cost >>

\* ----------------------------------------------------------------- matching
\* Variant: any fill marks the order filled.
update_order_status_NoPartial(o) ==
    IF o.filled_kopecks = 0 THEN "open" ELSE "filled"

update_order_status(o) ==
    IF o.filled_kopecks = 0 THEN "open"
    ELSE IF o.filled_kopecks >= o.amount_kopecks THEN "filled"
    ELSE "partial"

\* Rows another handler holds under FOR UPDATE: the counter-orders it has
\* matched but not yet committed.
RowsLockedByOthers(p) ==
    UNION { (DOMAIN txn[q].orders) \ {req[q].oid} : q \in Procs \ {p} }

\* The query of find_best_match: the filter, before ORDER BY and the lock.
MatchFilter(o, c) ==
    /\ c.market_id = o.market_id
    /\ c.side = (IF o.side = "yes" THEN "no" ELSE "yes")
    /\ c.status \in {"open", "partial"}
    /\ c.id # o.id
    /\ IF o.side = "yes"
         THEN c.price_bp <= 10000 - o.price_bp
         ELSE c.price_bp >= 10000 - o.price_bp

\* ORDER BY price_bp DESC, created_at ASC (ids grow with created_at).
Better(a, b) ==
    \/ a.price_bp > b.price_bp
    \/ a.price_bp = b.price_bp /\ a.id < b.id

\* Variant: a plain with_for_update() that waits for a locked row and then
\* works from the version it read before the wait.
find_best_match_NoSkip(o, view, skipped) ==
    LET cands == { c \in DOMAIN view : MatchFilter(o, view[c]) }
    IN IF cands = {} THEN 0
       ELSE CHOOSE c \in cands : \A d \in cands \ {c} : Better(view[c], view[d])

\* with_for_update(skip_locked=True).first(): 0 stands for None.
find_best_match(o, view, skipped) ==
    LET cands == { c \in (DOMAIN view) \ skipped : MatchFilter(o, view[c]) }
    IN IF cands = {} THEN 0
       ELSE CHOOSE c \in cands : \A d \in cands \ {c} : Better(view[c], view[d])

\* Variant: unlocks the cost instead of the filled amount.
settle_order_for_trade_UnlockCost(order, amount, cost, trade_id) ==
    << Entry(order.user_id, cost, "order_unlock", order.id),
       Entry(order.user_id, 0 - cost, "trade_lock", trade_id) >>

settle_order_for_trade(order, amount, cost, trade_id) ==
    << Entry(order.user_id, amount, "order_unlock", order.id),
       Entry(order.user_id, 0 - cost, "trade_lock", trade_id) >>

\* Variant: the costs are split at the price of the arriving order.
execute_trade_AggressorPrice(order1, order2, amount, trade_id) ==
    LET yes_order == IF order1.side = "yes" THEN order1 ELSE order2
        no_order  == IF order1.side = "yes" THEN order2 ELSE order1
        costs     == calculate_settlement(amount, order1.price_bp)
    IN [ trade |-> [ id |-> trade_id,
                     market_id |-> yes_order.market_id,
                     yes_order_id |-> yes_order.id,
                     no_order_id |-> no_order.id,
                     price_bp |-> yes_order.price_bp,
                     amount_kopecks |-> amount,
                     yes_cost_kopecks |-> costs[1],
                     no_cost_kopecks |-> costs[2] ],
         entries |-> settle_order_for_trade(yes_order, amount, costs[1], trade_id)
                     \o settle_order_for_trade(no_order, amount, costs[2], trade_id) ]

execute_trade(order1, order2, amount, trade_id) ==
    LET yes_order == IF order1.side = "yes" THEN order1 ELSE order2
        no_order  == IF order1.side = "yes" THEN order2 ELSE order1
        costs     == calculate_settlement(amount, yes_order.price_bp)
    IN [ trade |-> [ id |-> trade_id,
                     market_id |-> yes_order.market_id,
                     yes_order_id |-> yes_order.id,
                     no_order_id |-> no_order.id,
                     price_bp |-> yes_order.price_bp,
                     amount_kopecks |-> amount,
                     yes_cost_kopecks |-> costs[1],
                     no_cost_kopecks |-> costs[2] ],
         entries |-> settle_order_for_trade(yes_order, amount, costs[1], trade_id)
                     \o settle_order_for_trade(no_order, amount, costs[2], trade_id) ]

\* Variant: the fill replaces filled_kopecks instead of adding to it.
Fill_Overwrite(o, amount) ==
    LET f == [o EXCEPT !.filled_kopecks = amount]
    IN [f EXCEPT !.status = update_order_status(f)]

Fill(o, amount) ==
    LET f == [o EXCEPT !.filled_kopecks = @ + amount]
    IN [f EXCEPT !.status = update_order_status(f)]

\* State of the match_order loop of handler p.
Aggressor(p) == txn[p].orders[req[p].oid]
Remaining(p) == Aggressor(p).amount_kopecks - Aggressor(p).filled_kopecks
Counter(p) ==
    find_best_match(Aggressor(p), Overlay(orders, txn[p].orders), RowsLockedByOthers(p))
\* Variant: the fill is the aggressor's remainder, whatever the counter-order
\* has left.
FillAmount_AggressorRemainder(p) == Remaining(p)

FillAmount(p) ==
    LET c == Overlay(orders, txn[p].orders)[Counter(p)]
        counter_remaining == c.amount_kopecks - c.filled_kopecks
    IN IF Remaining(p) < counter_remaining THEN Remaining(p) ELSE counter_remaining
\* Variant: the loop runs while anything matches.
LoopContinues_Unbounded(p) ==
    /\ Remaining(p) > 0
    /\ Counter(p) # 0
    /\ FillAmount(p) > 0

LoopContinues(p) ==
    /\ Remaining(p) > 0
    /\ Cardinality(DOMAIN txn[p].trades) < MAX_TRADES_PER_ORDER
    /\ Counter(p) # 0
    /\ FillAmount(p) > 0

\* -------------------------------------------------------------------- state
Init ==
    /\ markets = [m \in Markets |-> [resolved |-> FALSE, outcome |-> "none"]]
    /\ orders = << >>
    /\ trades = << >>
    /\ ledger = EmptyBag
    /\ tonTx = {}
    /\ nextOrderId = 1
    /\ nextTradeId = 1
    /\ marketLock = [m \in Markets |-> NoProc]
    /\ pc = [p \in Procs |-> "idle"]
    /\ req = [p \in Procs |-> NoReq]
    /\ txn = [p \in Procs |-> EmptyTxn]
    /\ resolveOk = [m \in Markets |-> 0]
    /\ users = Users
    /\ indexer = [w \in Workers |-> NewIndexer]

\* The handler returns (a response or an HTTPException); its session closes.
Finish(p) ==
    /\ pc' = [pc EXCEPT ![p] = "idle"]
    /\ req' = [req EXCEPT ![p] = NoReq]
    /\ txn' = [txn EXCEPT ![p] = EmptyTxn]

\* GET /balance: total, available and the locked amount shown to the user,
\* the absolute value of the sum of the lock and unlock entries.
get_balance(user_id, L) ==
    LET locked == SumRows(L, { e \in BagToSet(L) :
                                 /\ e.user_id = user_id
                                 /\ e.type \in {"order_lock", "order_unlock", "trade_lock"} })
    IN [ total_kopecks     |-> get_user_balance(user_id, L),
         available_kopecks |-> get_available_balance(user_id, L),
         locked_amount     |-> IF locked < 0 THEN 0 - locked ELSE locked ]

\* ---------------------------------------------------------------- place_bet
\* place_bet raises an HTTPException (404 or 400) before its first write.  The
\* refused request stays on record in req[p], as in the handler's warning log.
Reject(p, user, market_id, amount_kopecks) ==
    /\ pc' = [pc EXCEPT ![p] = "idle"]
    /\ req' = [req EXCEPT ![p] =
          [NoReq EXCEPT !.op = "rejected", !.user = user, !.market = market_id,
                        !.cached = amount_kopecks]]
    /\ txn' = [txn EXCEPT ![p] = EmptyTxn]

\* price_bp and amount_kopecks are the values place_bet computes from the
\* request (int(bet.price * 10000), int(bet.amount * 100)).
\* Step 5 of place_bet: the entry that locks the whole order amount.
\* Variant: the lock written with the sign of an unlock.
order_lock_entry_Positive(user, amount_kopecks, order_id) ==
    Entry(user, amount_kopecks, "order_lock", order_id)

order_lock_entry(user, amount_kopecks, order_id) ==
    Entry(user, 0 - amount_kopecks, "order_lock", order_id)

\* Steps 1-5 of place_bet: market and size checks, the balance check, the
\* order insert and the order_lock entry (both flushed, not committed).
PlaceBetBegin(p, user, market_id, side, price_bp, amount_kopecks) ==
    /\ pc[p] = "idle"
    /\ IF market_id \notin DOMAIN markets
         THEN /\ Reject(p, user, market_id, amount_kopecks)
              /\ UNCHANGED << users, indexer, markets, orders, trades, ledger, tonTx, nextOrderId,
                              nextTradeId, marketLock, resolveOk >>
       ELSE IF \/ markets[market_id].resolved
               \/ ~ validate_order_size(amount_kopecks)
               \/ ~ has_sufficient_balance(user, amount_kopecks, ledger)
         THEN /\ Reject(p, user, market_id, amount_kopecks)
              /\ UNCHANGED << users, indexer, markets, orders, trades, ledger, tonTx, nextOrderId,
                              nextTradeId, marketLock, resolveOk >>
       ELSE /\ LET order == [ id |-> nextOrderId, user_id |-> user,
                              market_id |-> market_id, side |-> side,
                              price_bp |-> price_bp,
                              amount_kopecks |-> amount_kopecks,
                              filled_kopecks |-> 0, status |-> "open" ]
               IN /\ txn' = [txn EXCEPT ![p] =
                        [ orders |-> (nextOrderId :> order),
                          trades |-> << >>,
                          ledger |-> << order_lock_entry(user, amount_kopecks,
                                                         nextOrderId) >> ]]
                  /\ req' = [req EXCEPT ![p] =
                        [NoReq EXCEPT !.op = "place_bet", !.user = user,
                                      !.market = market_id, !.oid = nextOrderId]]
            /\ nextOrderId' = nextOrderId + 1
            /\ pc' = [pc EXCEPT ![p] = "pb_match"]
            /\ UNCHANGED << users, indexer, markets, orders, trades, ledger, tonTx, nextTradeId,
                            marketLock, resolveOk >>

\* One iteration of the match_order loop: find, fill, execute, flush.
PlaceBetMatch(p) ==
    /\ pc[p] = "pb_match"
    /\ LoopContinues(p)
    /\ LET view    == Overlay(orders, txn[p].orders)
           counter == view[Counter(p)]
           fill    == FillAmount(p)
           ex      == execute_trade(Aggressor(p), counter, fill, nextTradeId)
       IN txn' = [txn EXCEPT ![p] =
                [ orders |-> Overlay(txn[p].orders,
                                 (req[p].oid :> Fill(Aggressor(p), fill))
                                 @@ (counter.id :> Fill(counter, fill))),
                  trades |-> txn[p].trades @@ (nextTradeId :> ex.trade),
                  ledger |-> txn[p].ledger \o ex.entries ]]
    /\ nextTradeId' = nextTradeId + 1
    /\ UNCHANGED << users, indexer, markets, orders, trades, ledger, tonTx, nextOrderId, marketLock,
                    pc, req, resolveOk >>

\* The loop has ended: db.commit() publishes the order, the trades, the
\* counter-orders' fills and the ledger entries, and releases the row locks.
PlaceBetCommit(p) ==
    /\ pc[p] = "pb_match"
    /\ ~ LoopContinues(p)
    /\ orders' = Overlay(orders, txn[p].orders)
    /\ trades' = Overlay(trades, txn[p].trades)
    /\ ledger' = ledger (+) Rows(txn[p].ledger)
    /\ Finish(p)
    /\ UNCHANGED << users, indexer, markets, tonTx, nextOrderId, nextTradeId, marketLock, resolveOk >>

\* An exception inside the try block of place_bet before db.commit() has
\* returned (a database error in a flush, in match_order or in the commit):
\* the except branch rolls the session back and answers 500.  The ids taken
\* from the sequences are not given back.
PlaceBetFail(p) ==
    /\ pc[p] = "pb_match"
    /\ pc' = [pc EXCEPT ![p] = "idle"]
    /\ req' = [req EXCEPT ![p] = [req[p] EXCEPT !.op = "failed"]]
    /\ txn' = [txn EXCEPT ![p] = EmptyTxn]
    /\ UNCHANGED << users, indexer, markets, orders, trades, ledger, tonTx, nextOrderId, nextTradeId,
                    marketLock, resolveOk >>

\* db.commit() returns and the db.refresh(order) that follows it inside the
\* same try block raises (the connection is lost): the except branch calls
\* db.rollback(), which has nothing left to undo, and answers 500.
PlaceBetRefreshFail(p) ==
    /\ pc[p] = "pb_match"
    /\ ~ LoopContinues(p)
    /\ orders' = Overlay(orders, txn[p].orders)
    /\ trades' = Overlay(trades, txn[p].trades)
    /\ ledger' = ledger (+) Rows(txn[p].ledger)
    /\ pc' = [pc EXCEPT ![p] = "idle"]
    /\ req' = [req EXCEPT ![p] = [req[p] EXCEPT !.op = "failed"]]
    /\ txn' = [txn EXCEPT ![p] = EmptyTxn]
    /\ UNCHANGED << users, indexer, markets, tonTx, nextOrderId, nextTradeId, marketLock, resolveOk >>

\* ------------------------------------------------------------- cancel_order
\* Step 3 of cancel_order: the entry that returns the order's full amount.
\* Variant: the refund is the order's cost at its price, not its amount.
cancel_unlock_entry_Cost(user, order) ==
    Entry(user, (order.amount_kopecks * order.price_bp) \div 10000,
          "order_unlock", order.id)

\* Variant: the refund written with the sign of a lock.
cancel_unlock_entry_Negative(user, order) ==
    Entry(user, 0 - order.amount_kopecks, "order_unlock", order.id)

cancel_unlock_entry(user, order) ==
    Entry(user, order.amount_kopecks, "order_unlock", order.id)

\* Step 1 of cancel_order: the unlocked read of the caller's order and the
\* status check.  The loaded Order object stays cached in the session.
CancelBegin(p, user, order_id) ==
    /\ pc[p] = "idle"
    /\ IF \/ order_id \notin DOMAIN orders
          \/ orders[order_id].user_id # user
          \/ orders[order_id].status # "open"
         THEN UNCHANGED << users, indexer, pc, req, txn >>
         ELSE /\ pc' = [pc EXCEPT ![p] = "co_commit"]
              /\ req' = [req EXCEPT ![p] =
                    [NoReq EXCEPT !.op = "cancel_order", !.user = user,
                                  !.oid = order_id, !.cached = orders[order_id]]]
              /\ UNCHANGED txn
    /\ UNCHANGED << users, indexer, markets, orders, trades, ledger, tonTx, nextOrderId, nextTradeId,
                    marketLock, resolveOk >>

\* Steps 2-3: UPDATE orders SET status='cancelled' (only the changed column is
\* written; the UPDATE waits for a row lock held by a matcher), the
\* order_unlock entry for the cached amount_kopecks, and the commit.
CancelCommit(p) ==
    /\ pc[p] = "co_commit"
    /\ req[p].oid \notin RowsLockedByOthers(p)
    /\ orders' = [orders EXCEPT ![req[p].oid].status = "cancelled"]
    /\ ledger' = ledger (+) Rows(<< cancel_unlock_entry(req[p].user, req[p].cached) >>)
    /\ Finish(p)
    /\ UNCHANGED << users, indexer, markets, trades, tonTx, nextOrderId, nextTradeId, marketLock,
                    resolveOk >>

\* --------------------------------------------------------------- settlement
\* Variant: the fee rounded to the nearest kopeck instead of truncated.
FeeOf_Rounded(amount_kopecks) == (amount_kopecks * PLATFORM_FEE_RATE_PCT + 50) \div 100

\* int(trade.amount_kopecks * PLATFORM_FEE_RATE)
FeeOf(amount_kopecks) == (amount_kopecks * PLATFORM_FEE_RATE_PCT) \div 100

\* Variant: the winner's order also gets its unfilled remainder unlocked.
settle_winner_UnlocksOrder(order_id, gross_payout, fee_amount, trade_id) ==
    << Entry(orders[order_id].user_id, gross_payout, "payout", trade_id) >>
    \o (IF fee_amount > 0
          THEN << Entry(orders[order_id].user_id, 0 - fee_amount, "fee", trade_id) >>
          ELSE << >>)
    \o << Entry(orders[order_id].user_id,
                orders[order_id].amount_kopecks - orders[order_id].filled_kopecks,
                "order_unlock", order_id) >>

\* Variant: the fee entry is written whatever the fee.
settle_winner_AlwaysFee(order_id, gross_payout, fee_amount, trade_id) ==
    << Entry(orders[order_id].user_id, gross_payout, "payout", trade_id),
       Entry(orders[order_id].user_id, 0 - fee_amount, "fee", trade_id) >>

settle_winner(order_id, gross_payout, fee_amount, trade_id) ==
    << Entry(orders[order_id].user_id, gross_payout, "payout", trade_id) >>
    \o (IF fee_amount > 0
          THEN << Entry(orders[order_id].user_id, 0 - fee_amount, "fee", trade_id) >>
          ELSE << >>)

\* Variant: pays the YES side whatever the outcome.
SettleTrade_PaysYes(t, outcome) ==
    settle_winner(t.yes_order_id, t.amount_kopecks, FeeOf(t.amount_kopecks), t.id)

\* The per-trade branch of settle_market; settle_loser writes nothing.
SettleTrade(t, outcome) ==
    IF outcome = "yes"
      THEN settle_winner(t.yes_order_id, t.amount_kopecks, FeeOf(t.amount_kopecks), t.id)
      ELSE settle_winner(t.no_order_id, t.amount_kopecks, FeeOf(t.amount_kopecks), t.id)

MarketTrades(market_id) == { t \in DOMAIN trades : trades[t].market_id = market_id }

RECURSIVE SettleAll(_, _)
SettleAll(ids, outcome) ==
    IF ids = {} THEN << >>
    ELSE LET t == CHOOSE x \in ids : \A y \in ids : x <= y
         IN SettleTrade(trades[t], outcome) \o SettleAll(ids \ {t}, outcome)

SumFees(ids) == SumFn([t \in ids |-> FeeOf(trades[t].amount_kopecks)], ids)

\* The runtime check of settle_market: the payout and fee entries that
\* reference this market's trades, as the flushed session sees them.
SettlementSumsOk(trade_ids, seen) ==
    LET actual_payout_sum ==
            SumRows(seen, { e \in BagToSet(seen) :
                              e.type = "payout" /\ e.reference_id \in trade_ids })
        actual_fee_sum ==
            SumRows(seen, { e \in BagToSet(seen) :
                              e.type = "fee" /\ e.reference_id \in trade_ids })
    IN \/ trade_ids = {}
       \/ /\ actual_payout_sum = SumAmounts(trades, trade_ids)
          /\ actual_fee_sum = 0 - SumFees(trade_ids)

\* What `db.query(Market)...with_for_update().first()` hands to settle_market:
\* the row is locked, but the Market object resolve_market loaded before
\* (admin.py line 280) is already in the session's identity map, and a query
\* without populate_existing() returns that object with the attributes it was
\* loaded with.
LockedMarketRead(p, market_id) == req[p].cached

\* resolve_market up to the call of settle_market: outcome is valid, the
\* market exists and is not resolved as read without a lock.
ResolveBegin(p, market_id, outcome) ==
    /\ pc[p] = "idle"
    /\ IF \/ market_id \notin DOMAIN markets
          \/ markets[market_id].resolved
         THEN UNCHANGED << users, indexer, pc, req, txn >>
         ELSE /\ pc' = [pc EXCEPT ![p] = "rs_settle"]
              /\ req' = [req EXCEPT ![p] =
                    [NoReq EXCEPT !.op = "resolve", !.market = market_id,
                                  !.outcome = outcome, !.cached = markets[market_id]]]
              /\ UNCHANGED txn
    /\ UNCHANGED << users, indexer, markets, orders, trades, ledger, tonTx, nextOrderId, nextTradeId,
                    marketLock, resolveOk >>

\* settle_market: SELECT ... FOR UPDATE on the market row (waits while another
\* handler holds it), the resolved re-check, the payout and fee entries of
\* every trade, and the runtime check.  A failed check rolls back and raises.
ResolveSettle(p) ==
    /\ pc[p] = "rs_settle"
    /\ marketLock[req[p].market] = NoProc
    /\ LET m       == req[p].market
           ids     == MarketTrades(m)
           entries == SettleAll(ids, req[p].outcome)
       IN IF \/ LockedMarketRead(p, m).resolved
             \/ ~ SettlementSumsOk(ids, ledger (+) Rows(entries))
            THEN /\ Finish(p)
                 /\ UNCHANGED marketLock
            ELSE /\ marketLock' = [marketLock EXCEPT ![m] = p]
                 /\ txn' = [txn EXCEPT ![p].ledger = entries]
                 /\ pc' = [pc EXCEPT ![p] = "rs_commit"]
                 /\ req' = [req EXCEPT ![p].trade_ids = ids]
    /\ UNCHANGED << users, indexer, markets, orders, trades, ledger, tonTx, nextOrderId, nextTradeId,
                    resolveOk >>

\* db.commit() in resolve_market: the market update and the entries become
\* visible, the row lock is released, the request is answered with success.
ResolveCommit(p) ==
    /\ pc[p] = "rs_commit"
    /\ markets' = [markets EXCEPT ![req[p].market] =
                      [resolved |-> TRUE, outcome |-> req[p].outcome]]
    /\ ledger' = ledger (+) Rows(txn[p].ledger)
    /\ marketLock' = [marketLock EXCEPT ![req[p].market] = NoProc]
    /\ resolveOk' = [resolveOk EXCEPT ![req[p].market] = @ + 1]
    /\ Finish(p)
    /\ UNCHANGED << users, indexer, orders, trades, tonTx, nextOrderId, nextTradeId >>

\* Variant: the failed request's flushed entries are committed all the same.
RolledBack_Kept(L, flushed) == L (+) Rows(flushed)

\* db.rollback(): the ledger table without the rows the session had flushed.
RolledBack(L, flushed) == L

\* An exception in resolve_market after settle_market has flushed its entries
\* and before db.commit() has returned (a database error in the commit): the
\* except branch rolls the session back, which also releases the market row,
\* and answers 500.
ResolveFail(p) ==
    /\ pc[p] = "rs_commit"
    /\ ledger' = RolledBack(ledger, txn[p].ledger)
    /\ marketLock' = [marketLock EXCEPT ![req[p].market] = NoProc]
    /\ pc' = [pc EXCEPT ![p] = "idle"]
    /\ req' = [req EXCEPT ![p] = [req[p] EXCEPT !.op = "failed"]]
    /\ txn' = [txn EXCEPT ![p] = EmptyTxn]
    /\ UNCHANGED << users, indexer, markets, orders, trades, tonTx, nextOrderId,
                    nextTradeId, resolveOk >>

\* -------------------------------------------------------------- withdrawals
\* create_withdrawal reads ton_settings.WITHDRAWAL_FEE_NANOTON first (and later
\* MIN_WITHDRAWAL_NANOTON, MAX_WITHDRAWAL_PER_DAY_NANOTON).  TonSettings
\* declares none of them, so the read raises before any query or write: the
\* request fails and the database is as it was.
CreateWithdrawal(p, user, amount_nanoton) ==
    /\ pc[p] = "idle"
    /\ UNCHANGED vars

\* cancel_withdrawal looks the request up by id and owner; no request row
\* exists, so it answers 404 before its first write.
CancelWithdrawal(p, user, withdrawal_id) ==
    /\ pc[p] = "idle"
    /\ UNCHANGED vars

\* ------------------------------------------------------------------ indexer
\* int((nanoton / 1e9) * TON_TO_KOPECKS_RATE); the float product is exact for
\* the values of ChainTxs.
_convert_to_kopecks(nanoton) == nanoton \div (1000000000 \div TON_TO_KOPECKS_RATE)

\* _process_transaction and _credit_deposit for one transaction of a poll.
\* The entry's reference_id is assigned from ton_tx.id before the TonTransaction
\* row is flushed, so it is stored as NULL (0 here).
ProcessTransaction(tx) ==
    /\ tx.success
    /\ tx.value_nanoton >= MIN_DEPOSIT_NANOTON
    /\ ~ \E t \in tonTx : t.tx_hash = tx.hash
    /\ ledger' = ledger (+) Rows(<< Entry(tx.telegram_id,
                                           _convert_to_kopecks(tx.value_nanoton),
                                           "deposit", 0) >>)
    /\ tonTx' = tonTx \cup
                  { [ id |-> Cardinality(tonTx) + 1, tx_hash |-> tx.hash,
                      amount_nanoton |-> tx.value_nanoton,
                      telegram_id |-> tx.telegram_id, status |-> "credited",
                      user_id |-> tx.telegram_id ] }
    /\ UNCHANGED << users, indexer, markets, orders, trades, nextOrderId, nextTradeId, marketLock,
                    pc, req, txn, resolveOk >>

\* ----------------------------------------------------------- indexer task
\* int.from_bytes(b, "big").
RECURSIVE from_bytes_big(_)
from_bytes_big(b) ==
    IF b = << >> THEN 0
    ELSE from_bytes_big(SubSeq(b, 1, Len(b) - 1)) * 256 + b[Len(b)]

\* parse_deposit_memo without the opcode comparison.
parse_deposit_memo_AnyOpcode(body_data) ==
    IF Len(body_data) < 12 THEN 0
    ELSE from_bytes_big(SubSeq(body_data, 5, 12))

\* parse_deposit_memo: the telegram id of a deposit body, None (0 here) for a
\* missing or short body, another opcode or an id that is not positive.
parse_deposit_memo(body_data) ==
    IF Len(body_data) < 12 THEN 0
    ELSE IF from_bytes_big(SubSeq(body_data, 1, 4)) # DEPOSIT_OPCODE THEN 0
    ELSE from_bytes_big(SubSeq(body_data, 5, 12))

\* A deposit message body: 32 bits of opcode, 64 bits of telegram id.
Body(opcode_bytes, telegram_id) ==
    opcode_bytes \o << 0, 0, 0, 0, 0, 0, 0, telegram_id >>

Tx(hash, sender, value_nanoton, body_data, success) ==
    [ hash |-> hash, sender |-> sender, value_nanoton |-> value_nanoton,
      body_data |-> body_data, success |-> success ]

\* What getTransactions returns for the escrow address, after
\* parse_transaction.  _last_lt is never passed, so every poll gets the same
\* recent transactions: a deposit of user 1, a bounced one, one below the
\* minimum, one without a sender, a body of 11 bytes, the opcode in
\* little-endian order, telegram id 0, and a deposit of a telegram id that has
\* no User row yet.
ApiTxs ==
    << Tx("h1", "EQ", MIN_DEPOSIT_NANOTON, Body(<< 0, 0, 0, 1 >>, 1), TRUE),
       Tx("h2", "EQ", MIN_DEPOSIT_NANOTON, Body(<< 0, 0, 0, 1 >>, 3), FALSE),
       Tx("h3", "EQ", MIN_DEPOSIT_NANOTON - 1, Body(<< 0, 0, 0, 1 >>, 3), TRUE),
       Tx("h4", "", MIN_DEPOSIT_NANOTON, Body(<< 0, 0, 0, 1 >>, 3), TRUE),
       Tx("h5", "EQ", MIN_DEPOSIT_NANOTON, SubSeq(Body(<< 0, 0, 0, 1 >>, 3), 1, 11), TRUE),
       Tx("h6", "EQ", MIN_DEPOSIT_NANOTON, Body(<< 1, 0, 0, 0 >>, 3), TRUE),
       Tx("h7", "EQ", MIN_DEPOSIT_NANOTON, Body(<< 0, 0, 0, 1 >>, 0), TRUE),
       Tx("h8", "EQ", 2 * MIN_DEPOSIT_NANOTON, Body(<< 0, 0, 0, 1 >>, 3), TRUE) >>

\* Answers of the TON API to one HTTP attempt; status 0 is a transport error
\* (httpx.RequestError).
Responses ==
    { [status |-> 200, ok |-> TRUE, result |-> ApiTxs],
      [status |-> 200, ok |-> TRUE, result |-> << >>],
      [status |-> 200, ok |-> FALSE, result |-> << >>],
      [status |-> 429, ok |-> FALSE, result |-> << >>],
      [status |-> 503, ok |-> FALSE, result |-> << >>],
      [status |-> 404, ok |-> FALSE, result |-> << >>],
      [status |-> 0, ok |-> FALSE, result |-> << >>] }

\* _request retrying every error status.
Retried_Every4xx(status) == status = 0 \/ status >= 400

\* The answers after which _request sleeps and continues with the next
\* attempt: 429, a server error, a transport error.
Retried(status) == status = 0 \/ status = 429 \/ status >= 500

\* start(): _running = True and the task is created.  stop_deposit_indexer
\* drops the indexer object, so a stopped indexer is not started again.
IndexerStart(w) ==
    /\ ~ indexer[w]._running
    /\ indexer[w].at = "none"
    /\ indexer' = [indexer EXCEPT ![w]._running = TRUE, ![w].at = "created"]
    /\ UNCHANGED << users, ledger, tonTx, markets, orders, trades, nextOrderId,
                    nextTradeId, marketLock, pc, req, txn, resolveOk >>

\* _run_loop: the task starts, or wakes from asyncio.sleep(polling_interval),
\* finds _running set and calls _poll_deposits, which awaits the first
\* attempt of get_transactions.
PollBegin(w) ==
    /\ indexer[w].at \in {"created", "sleep"}
    /\ indexer[w]._running
    /\ indexer[w].polls < MaxPolls
    /\ indexer' = [indexer EXCEPT ![w].at = "fetch", ![w].attempt = 0,
                                  ![w].last_error = "none", ![w].sent = 0,
                                  ![w].raised = "none", ![w].last = "none",
                                  ![w].polls = @ + 1]
    /\ UNCHANGED << users, ledger, tonTx, markets, orders, trades, nextOrderId,
                    nextTradeId, marketLock, pc, req, txn, resolveOk >>

\* One pass of the loop of _request: the answer r to the HTTP attempt.
RequestAttempt(w, r) ==
    /\ indexer[w].at = "fetch"
    /\ indexer' =
         [indexer EXCEPT
            ![w].sent = IF Retried(r.status) THEN @ + 1 ELSE 0,
            ![w].attempt = IF Retried(r.status) THEN @ ELSE 0,
            ![w].last_error = IF ~ Retried(r.status) THEN "none"
                              ELSE IF r.status # 429 THEN "TonCenterError" ELSE @,
            ![w].raised = IF Retried(r.status) \/ (r.status = 200 /\ r.ok)
                          THEN "none" ELSE "TonCenterError",
            ![w].queue = IF r.status = 200 /\ r.ok THEN r.result ELSE << >>,
            ![w].at = IF Retried(r.status) THEN "backoff"
                      ELSE IF r.status = 200 /\ r.ok /\ r.result # << >> THEN "process"
                      ELSE "sleep"]
    /\ UNCHANGED << users, ledger, tonTx, markets, orders, trades, nextOrderId,
                    nextTradeId, marketLock, pc, req, txn, resolveOk >>

\* The sleep before the next attempt ends: the loop continues, or, with
\* range(API_RETRY_ATTEMPTS) used up, raises last_error or RateLimitError,
\* which _run_loop logs.
RequestBackoff(w) ==
    /\ indexer[w].at = "backoff"
    /\ indexer' =
         [indexer EXCEPT
            ![w].attempt = IF @ + 1 < API_RETRY_ATTEMPTS THEN @ + 1 ELSE 0,
            ![w].sent = IF indexer[w].attempt + 1 < API_RETRY_ATTEMPTS THEN @ ELSE 0,
            ![w].last_error = IF indexer[w].attempt + 1 < API_RETRY_ATTEMPTS THEN @
                              ELSE "none",
            ![w].raised = IF indexer[w].attempt + 1 < API_RETRY_ATTEMPTS THEN "none"
                          ELSE IF indexer[w].last_error # "none" THEN indexer[w].last_error
                          ELSE "RateLimitError",
            ![w].at = IF indexer[w].attempt + 1 < API_RETRY_ATTEMPTS
                      THEN "fetch" ELSE "sleep"]
    /\ UNCHANGED << users, ledger, tonTx, markets, orders, trades, nextOrderId,
                    nextTradeId, marketLock, pc, req, txn, resolveOk >>

\* _process_transaction returns False before opening a session.
Skipped(tx) ==
    \/ ~ tx.success
    \/ tx.sender = ""
    \/ tx.value_nanoton < MIN_DEPOSIT_NANOTON
    \/ parse_deposit_memo(tx.body_data) = 0

\* _poll_deposits without the try around the body of its for loop: the
\* exception leaves the poll and is logged by _run_loop.
NextTx_Unguarded(ix, outcome) ==
    [ix EXCEPT !.queue = IF outcome = "failed" THEN << >> ELSE Tail(@),
               !.last = outcome,
               !.session = NoSession,
               !.failed = IF outcome = "failed" THEN @ \cup {Head(ix.queue).hash} ELSE @,
               !.at = IF Len(ix.queue) > 1 /\ outcome # "failed" THEN "process"
                      ELSE "sleep"]

\* The for loop of _poll_deposits moves to the next transaction, or the poll
\* returns and _run_loop sleeps.
NextTx(ix, outcome) ==
    [ix EXCEPT !.queue = Tail(@),
               !.last = outcome,
               !.session = NoSession,
               !.failed = IF outcome = "failed" THEN @ \cup {Head(ix.queue).hash} ELSE @,
               !.at = IF Len(ix.queue) > 1 THEN "process" ELSE "sleep"]

\* _process_transaction for the next transaction of the poll, up to the
\* flushes of _credit_deposit: skipped, found among the committed
\* TonTransaction rows, or User (when missing) and LedgerEntry flushed and
\* the TonTransaction row added to the session.
ProcessBegin(w) ==
    /\ indexer[w].at = "process"
    /\ LET tx == Head(indexer[w].queue)
           telegram_id == parse_deposit_memo(tx.body_data)
       IN  indexer' =
             [indexer EXCEPT ![w] =
                IF Skipped(tx) THEN NextTx(@, "skipped")
                ELSE IF \E t \in tonTx : t.tx_hash = tx.hash THEN NextTx(@, "existing")
                ELSE [@ EXCEPT !.at = "credit",
                               !.session = [ open |-> TRUE, hash |-> tx.hash,
                                             telegram_id |-> telegram_id,
                                             amount_kopecks |->
                                                 _convert_to_kopecks(tx.value_nanoton),
                                             new_user |-> telegram_id \notin users ]]]
    /\ UNCHANGED << users, ledger, tonTx, markets, orders, trades, nextOrderId,
                    nextTradeId, marketLock, pc, req, txn, resolveOk >>

\* No unique index on ton_transactions.tx_hash.
UniqueViolation_NoTxHashIndex(s) == s.new_user /\ s.telegram_id \in users

\* The unique indexes on ton_transactions.tx_hash and users.telegram_id
\* reject the rows of session s when another session has committed the same
\* hash or the same telegram id since s read.
UniqueViolation(s) ==
    \/ \E t \in tonTx : t.tx_hash = s.hash
    \/ s.new_user /\ s.telegram_id \in users

\* db.commit() of _credit_deposit: all rows of the session become visible
\* together, or IntegrityError is raised, the session is closed without a
\* commit and _poll_deposits logs the error and goes on.
CreditCommit(w) ==
    /\ indexer[w].at = "credit"
    /\ LET s == indexer[w].session
       IN  IF UniqueViolation(s)
           THEN /\ indexer' = [indexer EXCEPT ![w] = NextTx(@, "failed")]
                /\ UNCHANGED << users, ledger, tonTx >>
           ELSE /\ indexer' = [indexer EXCEPT ![w] = NextTx(@, "credited")]
                /\ users' = users \cup {s.telegram_id}
                /\ ledger' = ledger (+) Rows(<< Entry(s.telegram_id, s.amount_kopecks,
                                                      "deposit", 0) >>)
                /\ tonTx' = tonTx \cup
                              { [ id |-> Cardinality(tonTx) + 1, tx_hash |-> s.hash,
                                  amount_nanoton |-> Head(indexer[w].queue).value_nanoton,
                                  telegram_id |-> s.telegram_id, status |-> "credited",
                                  user_id |-> s.telegram_id ] }
    /\ UNCHANGED << markets, orders, trades, nextOrderId, nextTradeId, marketLock,
                    pc, req, txn, resolveOk >>

\* A statement of _credit_deposit raises (the database is unreachable, a
\* lock wait times out): the with block closes the session, which rolls its
\* flushed rows back, and _poll_deposits logs the error and goes on.
CreditFail(w) ==
    /\ indexer[w].at = "credit"
    /\ indexer' = [indexer EXCEPT ![w] = NextTx(@, "failed")]
    /\ UNCHANGED << users, ledger, tonTx, markets, orders, trades, nextOrderId,
                    nextTradeId, marketLock, pc, req, txn, resolveOk >>

\* stop(): _running = False and the task is cancelled.  CancelledError is
\* delivered where the task awaits: before its first step, in the HTTP
\* attempt or the retry sleep of _request, or in the sleep between polls; it
\* is not an Exception, so neither _request nor _run_loop catches it.
\* _process_transaction never awaits, so the transactions of a poll are
\* processed without the event loop running stop() in between.
IndexerStop(w) ==
    /\ indexer[w]._running
    /\ indexer[w].at \in {"created", "fetch", "backoff", "sleep"}
    /\ indexer' = [indexer EXCEPT ![w]._running = FALSE, ![w].at = "cancelled",
                                  ![w].cut = indexer[w].at \in {"fetch", "backoff"}]
    /\ UNCHANGED << users, ledger, tonTx, markets, orders, trades, nextOrderId,
                    nextTradeId, marketLock, pc, req, txn, resolveOk >>

\* ------------------------------------------------------------ specification
\* Requests of SeqSpec: either user on either side, two sizes.
Bets ==
    { [user |-> u, side |-> sp[1], price_bp |-> sp[2], amount_kopecks |-> a] :
        u \in Users, sp \in { <<"yes", 6667>>, <<"no", 3333>> }, a \in {100, 149} }

\* Requests of Spec: user 1 buys YES, user 2 buys NO.  Two of user 1's orders
\* exceed one deposit; two of user 2's orders exceed one order of user 1.
ConcBets ==
    { [user |-> 1, side |-> "yes", price_bp |-> 6667, amount_kopecks |-> 3025],
      [user |-> 2, side |-> "no", price_bp |-> 3333, amount_kopecks |-> 2030] }

Outcomes == {"yes", "no"}

Step(p, bets, limit) ==
    \/ /\ nextOrderId <= limit
       /\ \E b \in bets, m \in Markets :
             PlaceBetBegin(p, b.user, m, b.side, b.price_bp, b.amount_kopecks)
    \/ PlaceBetMatch(p)
    \/ PlaceBetCommit(p)
    \/ \E u \in Users, o \in 1..limit : CancelBegin(p, u, o)
    \/ CancelCommit(p)
    \/ \E m \in Markets, o \in Outcomes : ResolveBegin(p, m, o)
    \/ ResolveSettle(p)
    \/ ResolveCommit(p)
    \/ \E u \in Users : CreateWithdrawal(p, u, 1000000000)
    \/ \E u \in Users : CancelWithdrawal(p, u, 1)

Deposit == \E tx \in ChainTxs : ProcessTransaction(tx)

AtRest == \A p \in Procs : pc[p] = "idle"

\* Handlers run in parallel (threads and worker processes over one database).
Next ==
    \/ \E p \in Procs : Step(p, ConcBets, MaxConcOrders)
    \/ Deposit

Spec == Init /\ [][Next]_vars

\* One request at a time: every operation runs to completion before the next.
SeqNext ==
    \/ Step(1, Bets, MaxOrders)
    \/ Deposit

SeqSpec == Init /\ [][SeqNext]_vars

\* The database after the indexer has credited both chain transactions, h1
\* first: the two deposit entries and their TonTransaction rows.
Funded ==
    /\ ledger = Rows(<< Entry(1, 5000, "deposit", 0), Entry(2, 5000, "deposit", 0) >>)
    /\ tonTx = { [ id |-> 1, tx_hash |-> "h1", amount_nanoton |-> 100000000,
                   telegram_id |-> 1, status |-> "credited", user_id |-> 1 ],
                 [ id |-> 2, tx_hash |-> "h2", amount_nanoton |-> 100000000,
                   telegram_id |-> 2, status |-> "credited", user_id |-> 2 ] }

\* Requests of BookSpec: user 1 buys YES and user 2 buys NO, at prices that
\* add up to less than, exactly and more than 10000.
BookBets ==
    { [user |-> 1, side |-> "yes", price_bp |-> pr, amount_kopecks |-> a] :
        pr \in {6000, 6500}, a \in {100, 149} }
    \cup
    { [user |-> 2, side |-> "no", price_bp |-> pr, amount_kopecks |-> a] :
        pr \in {3500, 4000}, a \in {100, 149} }

BookInit ==
    /\ markets = [m \in Markets |-> [resolved |-> FALSE, outcome |-> "none"]]
    /\ orders = << >>
    /\ trades = << >>
    /\ Funded
    /\ nextOrderId = 1
    /\ nextTradeId = 1
    /\ marketLock = [m \in Markets |-> NoProc]
    /\ pc = [p \in Procs |-> "idle"]
    /\ req = [p \in Procs |-> NoReq]
    /\ txn = [p \in Procs |-> EmptyTxn]
    /\ resolveOk = [m \in Markets |-> 0]
    /\ users = Users
    /\ indexer = [w \in Workers |-> NewIndexer]

BookNext == Step(1, BookBets, MaxBookOrders)

\* Both users funded, then one request at a time over a book of many prices.
BookSpec == BookInit /\ [][BookNext]_vars

\* Requests of FaultSpec: sizes at and around the limits of validate_order_size
\* and of the 5000 kopecks each user has, for market 1 and for a market that
\* does not exist.
FaultBets ==
    { [user |-> 1, side |-> "yes", price_bp |-> 6000, amount_kopecks |-> a] :
        a \in { MIN_ORDER_SIZE_KOPECKS - 1, MIN_ORDER_SIZE_KOPECKS, 5000, 5001,
                MAX_ORDER_SIZE_KOPECKS + 1 } }
    \cup
    { [user |-> 2, side |-> "no", price_bp |-> 4000, amount_kopecks |-> a] :
        a \in { MIN_ORDER_SIZE_KOPECKS, 149 } }

FaultNext ==
    \/ /\ nextOrderId <= MaxFaultOrders
       /\ \E b \in FaultBets, m \in {1, 2} :
             PlaceBetBegin(1, b.user, m, b.side, b.price_bp, b.amount_kopecks)
    \/ PlaceBetMatch(1)
    \/ PlaceBetCommit(1)
    \/ PlaceBetFail(1)
    \/ PlaceBetRefreshFail(1)
    \/ \E u \in Users, o \in 1..MaxFaultOrders : CancelBegin(1, u, o)
    \/ CancelCommit(1)
    \/ \E m \in Markets, o \in Outcomes : ResolveBegin(1, m, o)
    \/ ResolveSettle(1)
    \/ ResolveCommit(1)

\* Both users funded, one request at a time; requests may be invalid and the
\* database may fail during a place_bet.
FaultSpec == BookInit /\ [][FaultNext]_vars

\* Requests of SettleSpec: one YES and one NO order that match in full.
SettleBets ==
    { [user |-> 1, side |-> "yes", price_bp |-> 6000, amount_kopecks |-> 149],
      [user |-> 2, side |-> "no", price_bp |-> 4000, amount_kopecks |-> 149] }

SettleNext ==
    \E p \in Procs :
        \/ Step(p, SettleBets, MaxSettleOrders)
        \/ ResolveFail(p)

\* Both users funded, two handlers in parallel, and the database may fail
\* during a resolution.
SettleSpec == BookInit /\ [][SettleNext]_vars

\* The deposit indexers of two worker processes over the empty database, the
\* TON API answering each attempt in any of its ways.
IndexNext ==
    \E w \in Workers :
        \/ IndexerStart(w)
        \/ PollBegin(w)
        \/ \E r \in Responses : RequestAttempt(w, r)
        \/ RequestBackoff(w)
        \/ ProcessBegin(w)
        \/ CreditCommit(w)
        \/ CreditFail(w)
        \/ IndexerStop(w)

IndexSpec == Init /\ [][IndexNext]_vars

\* A deep book: user 2 has deposited 10000 kopecks and placed BookDepth NO
\* orders of the minimum size at 4000, none matched; user 1 has deposited
\* 10000 kopecks.
BookDepth == MAX_TRADES_PER_ORDER + Unreached

LimitInit ==
    /\ markets = [m \in Markets |-> [resolved |-> FALSE, outcome |-> "none"]]
    /\ orders = [i \in 1..BookDepth |->
                   [ id |-> i, user_id |-> 2, market_id |-> 1, side |-> "no",
                     price_bp |-> 4000, amount_kopecks |-> MIN_ORDER_SIZE_KOPECKS,
                     filled_kopecks |-> 0, status |-> "open" ]]
    /\ trades = << >>
    /\ ledger = Rows(<< Entry(1, _convert_to_kopecks(200000000), "deposit", 0),
                        Entry(2, _convert_to_kopecks(200000000), "deposit", 0) >>)
                (+) SetToBag({ order_lock_entry(2, MIN_ORDER_SIZE_KOPECKS, i) :
                                 i \in 1..BookDepth })
    /\ tonTx = { [ id |-> 1, tx_hash |-> "h1", amount_nanoton |-> 200000000,
                   telegram_id |-> 1, status |-> "credited", user_id |-> 1 ],
                 [ id |-> 2, tx_hash |-> "h2", amount_nanoton |-> 200000000,
                   telegram_id |-> 2, status |-> "credited", user_id |-> 2 ] }
    /\ nextOrderId = BookDepth + 1
    /\ nextTradeId = 1
    /\ marketLock = [m \in Markets |-> NoProc]
    /\ pc = [p \in Procs |-> "idle"]
    /\ req = [p \in Procs |-> NoReq]
    /\ txn = [p \in Procs |-> EmptyTxn]
    /\ resolveOk = [m \in Markets |-> 0]
    /\ users = Users
    /\ indexer = [w \in Workers |-> NewIndexer]

\* Requests of LimitSpec: user 1 buys YES at 6000, for the whole book, for
\* exactly as much as one call can take, and for two and a half orders.
LimitBets ==
    { [user |-> 1, side |-> "yes", price_bp |-> 6000, amount_kopecks |-> a] :
        a \in { MIN_ORDER_SIZE_KOPECKS * BookDepth,
                MIN_ORDER_SIZE_KOPECKS * MAX_TRADES_PER_ORDER,
                250 } }

\* Cancellations are requested for the last resting order and the first
\* order placed during the run.
LimitNext ==
    \/ /\ nextOrderId <= BookDepth + MaxLimitOrders
       /\ \E b \in LimitBets :
             PlaceBetBegin(1, b.user, 1, b.side, b.price_bp, b.amount_kopecks)
    \/ PlaceBetMatch(1)
    \/ PlaceBetCommit(1)
    \/ \E u \in Users, o \in {BookDepth, BookDepth + 1} : CancelBegin(1, u, o)
    \/ CancelCommit(1)

\* One request at a time over the deep book.
LimitSpec == LimitInit /\ [][LimitNext]_vars

\* ================================================================ properties
SumType(L, types) == SumRows(L, { e \in BagToSet(L) : e.type \in types })
SumPending(p) == SumLedger(Rows(txn[p].ledger))
Live == { o \in DOMAIN orders : orders[o].status # "cancelled" }
\* Unfilled remainder of the orders that were not cancelled.
OpenResidue == SumFn([o \in Live |-> orders[o].amount_kopecks - orders[o].filled_kopecks], Live)
Unsettled == { t \in DOMAIN trades : ~markets[trades[t].market_id].resolved }
Settled == { t \in DOMAIN trades : markets[trades[t].market_id].resolved }
\* Funds the ledger holds back: open remainders and trades awaiting resolution.
HeldBack == OpenResidue + SumAmounts(trades, Unsettled)
Deposited == SumType(ledger, {"deposit"})
\* The platform fee of a trade: 2% of its amount, rounded down.
TwoPercent(amount_kopecks) == (amount_kopecks * 2) \div 100
FeesOf(ids) == SumFn([t \in ids |-> TwoPercent(trades[t].amount_kopecks)], ids)
PlaceOrCancelCommits ==
    /\ pc[1] \in {"pb_match", "co_commit"}
    /\ pc'[1] = "idle"

\* Handler p executes one fill of its matching loop in this step.
Fills(p) ==
    /\ pc[p] = "pb_match"
    /\ pc'[p] = "pb_match"
    /\ nextTradeId \in (DOMAIN txn'[p].trades) \ (DOMAIN txn[p].trades)

Resolves(p) ==
    /\ pc[p] = "rs_commit"
    /\ pc'[p] = "idle"

Lifecycle(y, n) ==
    /\ DOMAIN orders = {y, n}
    /\ DOMAIN trades = {1}
    /\ orders[y].side = "yes"
    /\ orders[n].side = "no"
    /\ orders[y].user_id # orders[n].user_id
    /\ orders[y].amount_kopecks = orders[n].amount_kopecks
    /\ orders[y].price_bp + orders[n].price_bp = 10000
    /\ orders[y].status = "filled"
    /\ orders[n].status = "filled"
    /\ trades[1].amount_kopecks = orders[y].amount_kopecks
    /\ markets[orders[y].market_id].resolved
    /\ AtRest

C6_Claimed ==
    \A u \in Users : get_user_balance(u, ledger) >= 0

\* ------------------------------------------------------------------------ C7
TradesOf(o, T) == { t \in DOMAIN T : T[t].yes_order_id = o \/ T[t].no_order_id = o }
\* Committed trades together with the trades handlers have written but not
\* committed yet.
AllTrades == Overlay(trades, Overlay(txn[1].trades, txn[2].trades))
\* Handler q's aggressor would match resting order c were c's row not locked
\* by handler p.
SkipsLocked(p, q, c) ==
    /\ pc[p] = "pb_match"
    /\ pc[q] = "pb_match"
    /\ c \in DOMAIN orders
    /\ c \in DOMAIN txn[p].orders
    /\ c \in RowsLockedByOthers(q)
    /\ MatchFilter(Aggressor(q), orders[c])

\* C7: no order is ever filled beyond its amount, by concurrent aggressors
\* either: the trades that reference an order, committed or pending, sum to
\* no more than the order's amount, and its filled amount stays within it.
C7_NoDoubleFill ==
    /\ \A o \in DOMAIN orders :
          /\ orders[o].filled_kopecks <= orders[o].amount_kopecks
          /\ SumAmounts(AllTrades, TradesOf(o, AllTrades)) <= orders[o].amount_kopecks
    /\ \A p \in Procs : \A o \in DOMAIN txn[p].orders :
          txn[p].orders[o].filled_kopecks <= txn[p].orders[o].amount_kopecks

C7_Witness ==
    \E p, q \in Procs : \E c \in DOMAIN orders :
        /\ p # q
        /\ SkipsLocked(p, q, c)
        /\ orders[c].amount_kopecks - orders[c].filled_kopecks
             < Aggressor(p).amount_kopecks + Aggressor(q).amount_kopecks

\* ------------------------------------------------------------------------ C8
\* C8 as stated: of concurrent resolve calls on one market exactly one
\* settles it and every trade gets at most one payout entry.
C8_Claimed ==
    /\ \A m \in Markets : resolveOk[m] <= 1
    /\ \A e \in BagToSet(ledger) : e.type = "payout" => CopiesIn(e, ledger) = 1

\* ------------------------------------------------------------------------ C9
\* C9 as stated: no order and no trade is committed on a market that is
\* resolved, whatever the interleaving of bets and resolutions.
C9_Claimed ==
    [][/\ \A o \in (DOMAIN orders') \ (DOMAIN orders) :
             ~markets[orders'[o].market_id].resolved
       /\ \A t \in (DOMAIN trades') \ (DOMAIN trades) :
             ~markets[trades'[t].market_id].resolved]_vars

\* ----------------------------------------------------------------------- C10
\* C10 as stated: a resolved market stays resolved with the outcome it has,
\* and a resolve call on it changes neither the market nor the ledger.
C10_Claimed ==
    [][\A m \in Markets :
          markets[m].resolved =>
              /\ markets'[m] = markets[m]
              /\ (\E p \in Procs : pc[p] \in {"rs_settle", "rs_commit"}
                                   /\ pc'[p] = "idle"
                                   /\ req[p].market = m) => ledger' = ledger]_vars

\* ----------------------------------------------------------------------- C11
\* C11 as stated: an order that is cancelled or filled keeps its status and
\* its filled_kopecks for ever, in every interleaving of bets and cancels.
C11_Claimed ==
    [][\A o \in DOMAIN orders :
          orders[o].status \in {"cancelled", "filled"} =>
              /\ orders'[o].status = orders[o].status
              /\ orders'[o].filled_kopecks = orders[o].filled_kopecks]_vars

\* ----------------------------------------------------------------------- C12
\* The fill bounds and the status an order's fill ratio calls for.
FillConsistent(o) ==
    /\ 0 <= o.filled_kopecks
    /\ o.filled_kopecks <= o.amount_kopecks
    /\ o.status # "cancelled" =>
          /\ (o.status = "open") <=> (o.filled_kopecks = 0)
          /\ (o.status = "filled") <=> (o.filled_kopecks = o.amount_kopecks)
          /\ (o.status = "partial") <=>
                (0 < o.filled_kopecks /\ o.filled_kopecks < o.amount_kopecks)

\* C12: every order, committed or flushed by a handler in flight, has
\* 0 <= filled_kopecks <= amount_kopecks, and unless it is cancelled its
\* status is open iff nothing is filled, filled iff all of it is, and partial
\* otherwise.
C12_StatusReflectsFill ==
    /\ \A o \in DOMAIN orders : FillConsistent(orders[o])
    /\ \A p \in Procs : \A o \in DOMAIN txn[p].orders : FillConsistent(txn[p].orders[o])

C12_Witness ==
    /\ \E o \in DOMAIN orders : orders[o].status = "partial"
    /\ \E o \in DOMAIN orders : orders[o].status = "filled"
    /\ \E p \in Procs : \E o \in DOMAIN txn[p].orders :
          /\ o \in DOMAIN orders
          /\ txn[p].orders[o].status = "filled"
          /\ orders[o].status = "partial"

\* ----------------------------------------------------------------------- C13
\* Handler p completes a cancellation in this step: the order becomes
\* cancelled and its order_unlock entry is committed.
Cancels(p) ==
    /\ pc[p] = "co_commit"
    /\ pc'[p] = "idle"

\* C13 as stated: a cancellation goes through only for an order of the caller
\* whose status is open; in every other step of a cancel request the orders
\* and the ledger stay as they are.
C13_Claimed ==
    [][\A p \in Procs :
          /\ Cancels(p) =>
                /\ orders[req[p].oid].user_id = req[p].user
                /\ orders[req[p].oid].status = "open"
          /\ (pc[p] = "idle" /\ pc'[p] = "co_commit") =>
                (orders' = orders /\ ledger' = ledger)]_vars

\* ----------------------------------------------------------------------- C14
\* Handler p commits a bet that found no match.
PlacesUnmatched(p) ==
    /\ pc[p] = "pb_match"
    /\ pc'[p] = "idle"
    /\ txn[p].trades = << >>

\* C14: an order placed without a match takes its amount off the user's
\* available balance, and cancelling it commits an order_unlock entry of the
\* order's full amount_kopecks that puts the same amount back: after the round
\* trip the available balance is what it was before the order.
C14_CancelRoundTrip ==
    [][\A p \in Procs :
          /\ PlacesUnmatched(p) =>
                get_available_balance(req[p].user, ledger')
                    = get_available_balance(req[p].user, ledger)
                        - txn[p].orders[req[p].oid].amount_kopecks
          /\ Cancels(p) =>
                /\ ledger' = ledger (+) SetToBag({ Entry(req[p].user,
                                 orders[req[p].oid].amount_kopecks,
                                 "order_unlock", req[p].oid) })
                /\ get_available_balance(req[p].user, ledger')
                    = get_available_balance(req[p].user, ledger)
                        + orders[req[p].oid].amount_kopecks
                /\ SumRows(ledger', { e \in BagToSet(ledger') :
                                        /\ e.reference_id = req[p].oid
                                        /\ e.type \in {"order_lock", "order_unlock"} }) = 0]_vars

C14_Witness ==
    \E o \in DOMAIN orders : \E e \in BagToSet(ledger) :
        /\ AtRest
        /\ orders[o].status = "cancelled"
        /\ e = Entry(orders[o].user_id, orders[o].amount_kopecks, "order_unlock", o)
        /\ DOMAIN trades = {}
        /\ get_available_balance(orders[o].user_id, ledger)
             = SumRows(ledger, { d \in BagToSet(ledger) :
                                   d.user_id = orders[o].user_id /\ d.type = "deposit" })
        /\ get_available_balance(orders[o].user_id, ledger) > 0

\* ----------------------------------------------------------------------- C15
\* The orders handler p sees: committed rows under its own flushed ones.
ViewOf(p) == Overlay(orders, txn[p].orders)

\* Resting order c and aggressor o are on opposite sides of one market and
\* their prices add up to at least 10000.
Compatible(o, c) ==
    /\ c.market_id = o.market_id
    /\ c.side # o.side
    /\ c.status \in {"open", "partial"}
    /\ c.id # o.id
    /\ o.price_bp + c.price_bp >= 10000

\* Handler p commits its bet in this step (the matching loop has ended).
PlaceCommits(p) ==
    /\ pc[p] = "pb_match"
    /\ pc'[p] = "idle"

\* C15 as stated: an aggressor on either side is filled against a resting
\* order exactly when the YES price and the NO price add up to at least
\* 10000: every fill joins such a pair, and matching does not stop short of
\* the aggressor's amount while such a resting order is left.
C15_Claimed ==
    [][\A p \in Procs :
          /\ Fills(p) =>
                LET t == txn'[p].trades[nextTradeId]
                IN ViewOf(p)[t.yes_order_id].price_bp
                     + ViewOf(p)[t.no_order_id].price_bp >= 10000
          /\ (PlaceCommits(p) /\ Remaining(p) > 0
                /\ Cardinality(DOMAIN txn[p].trades) < MAX_TRADES_PER_ORDER) =>
                ~ \E c \in DOMAIN orders : Compatible(Aggressor(p), ViewOf(p)[c])]_vars

\* ----------------------------------------------------------------------- C16
\* C16 as stated: a trade's price_bp is the YES price of the order that was
\* resting: its own price if it is the YES order, 10000 minus its price if it
\* is the NO order.
C16_Claimed ==
    [][\A p \in Procs :
          Fills(p) =>
              LET t       == txn'[p].trades[nextTradeId]
                  resting == IF t.yes_order_id = req[p].oid
                               THEN ViewOf(p)[t.no_order_id]
                               ELSE ViewOf(p)[t.yes_order_id]
              IN t.price_bp = IF resting.side = "yes"
                                THEN resting.price_bp
                                ELSE 10000 - resting.price_bp]_vars

\* ----------------------------------------------------------------------- C17
\* The resting order handler p's next fill is made against.
Taken(p) ==
    LET t == txn'[p].trades[nextTradeId]
    IN IF t.yes_order_id = req[p].oid THEN t.no_order_id ELSE t.yes_order_id

\* C17 as stated: every fill takes, of the resting orders whose price is
\* compatible with the aggressor's, one with the best (highest) counter-price,
\* and of those at that price the one created first.
C17_Claimed ==
    [][\A p \in Procs :
          Fills(p) =>
              LET c == ViewOf(p)[Taken(p)]
              IN /\ Compatible(Aggressor(p), c)
                 /\ \A d \in DOMAIN ViewOf(p) :
                       Compatible(Aggressor(p), ViewOf(p)[d]) =>
                           \/ c.price_bp > ViewOf(p)[d].price_bp
                           \/ c.price_bp = ViewOf(p)[d].price_bp /\ c.id <= d]_vars

\* ----------------------------------------------------------------------- C18
\* The market holds exactly the YES order y and the NO order n, of equal
\* amount and complementary prices, neither cancelled, and is not resolved.
ExactPair(y, n) ==
    /\ AtRest
    /\ DOMAIN orders = {y, n}
    /\ y # n
    /\ orders[y].side = "yes"
    /\ orders[n].side = "no"
    /\ orders[y].user_id # orders[n].user_id
    /\ orders[y].market_id = orders[n].market_id
    /\ orders[y].price_bp + orders[n].price_bp = 10000
    /\ orders[y].amount_kopecks = orders[n].amount_kopecks
    /\ orders[y].status # "cancelled"
    /\ orders[n].status # "cancelled"
    /\ ~markets[orders[y].market_id].resolved

\* C18: a YES order at p and a NO order at 10000 - p of equal amount a,
\* placed on an empty market in either order, end filled with one trade of
\* amount a at price p, costs floor(a*p/10000) and the rest, and each user
\* then has its deposit minus its own cost available and its own cost locked.
C18_ExactMatch ==
    \A y, n \in DOMAIN orders :
        ExactPair(y, n) =>
            LET a        == orders[y].amount_kopecks
                yes_cost == (a * orders[y].price_bp) \div 10000
                no_cost  == a - yes_cost
                yes_bal  == get_balance(orders[y].user_id, ledger)
                no_bal   == get_balance(orders[n].user_id, ledger)
            IN /\ orders[y].status = "filled"
               /\ orders[n].status = "filled"
               /\ DOMAIN trades = {1}
               /\ trades[1] = [ id |-> 1, market_id |-> orders[y].market_id,
                                yes_order_id |-> y, no_order_id |-> n,
                                price_bp |-> orders[y].price_bp,
                                amount_kopecks |-> a,
                                yes_cost_kopecks |-> yes_cost,
                                no_cost_kopecks |-> no_cost ]
               /\ yes_bal.available_kopecks = 5000 - yes_cost
               /\ yes_bal.locked_amount = yes_cost
               /\ no_bal.available_kopecks = 5000 - no_cost
               /\ no_bal.locked_amount = no_cost

C18_Witness ==
    /\ ExactPair(2, 1)
    /\ orders[2].amount_kopecks = 149
    /\ orders[2].price_bp = 6500
    /\ orders[2].status = "filled"

\* ----------------------------------------------------------------------- C19
\* Amounts and prices at which the cost split is evaluated directly.
SplitAmounts == {1, 2, 3, 99, 100, 149}
SplitPrices == {0, 1, 3333, 6500, 9999, 10000}

\* yes_cost is the floor of amount * price_bp / 10000, no_cost is the rest,
\* which is that share of the NO side rounded up.
FlooredSplit(amount, price_bp, yes_cost, no_cost) ==
    /\ yes_cost * 10000 <= amount * price_bp
    /\ amount * price_bp < (yes_cost + 1) * 10000
    /\ no_cost = amount - yes_cost
    /\ yes_cost >= 0
    /\ no_cost >= 0
    /\ amount >= 0
    /\ no_cost * 10000 >= amount * (10000 - price_bp)
    /\ (no_cost - 1) * 10000 < amount * (10000 - price_bp)

TradeSplit(t) ==
    FlooredSplit(t.amount_kopecks, t.price_bp, t.yes_cost_kopecks, t.no_cost_kopecks)

\* C19: for every amount >= 1 and price in [0, 10000] the split is
\* yes_cost = floor(amount*p/10000), no_cost = amount - yes_cost; every stored
\* Trade has yes_cost + no_cost = amount with all three >= 0, and the rounding
\* remainder is on the NO side.
C19_CostSplit ==
    /\ \A a \in SplitAmounts, pr \in SplitPrices :
          FlooredSplit(a, pr, calculate_settlement(a, pr)[1], calculate_settlement(a, pr)[2])
    /\ \A t \in DOMAIN trades : TradeSplit(trades[t])
    /\ \A p \in Procs : \A t \in DOMAIN txn[p].trades : TradeSplit(txn[p].trades[t])

C19_Witness ==
    \E t \in DOMAIN trades :
        /\ trades[t].amount_kopecks = 149
        /\ trades[t].price_bp = 6500
        /\ trades[t].yes_cost_kopecks = 96
        /\ trades[t].no_cost_kopecks = 53

\* ----------------------------------------------------------------------- C20
\* Resting orders the running match_order call of handler p has traded with.
Reached(p) ==
    { IF txn[p].trades[t].yes_order_id = req[p].oid
        THEN txn[p].trades[t].no_order_id
        ELSE txn[p].trades[t].yes_order_id : t \in DOMAIN txn[p].trades }

HitsBound(p) ==
    /\ PlaceCommits(p)
    /\ Cardinality(DOMAIN txn[p].trades) = MAX_TRADES_PER_ORDER
    /\ Remaining(p) > 0

\* C20: a match_order call ends after at most MAX_TRADES_PER_ORDER trades:
\* the number of its trades never exceeds the bound, every iteration adds one
\* trade and takes a positive amount off what the aggressor still wants, and
\* at the bound the call's next step is its end.  When it ends at the bound
\* with the aggressor not filled, the aggressor is stored partial with its
\* unfilled rest, and every resting order the call did not trade with is
\* unchanged.
C20_BoundedMatch ==
    /\ [](\A p \in Procs : Cardinality(DOMAIN txn[p].trades) <= MAX_TRADES_PER_ORDER)
    /\ [][\A p \in Procs :
            /\ Fills(p) =>
                  /\ Cardinality(DOMAIN txn'[p].trades)
                       = Cardinality(DOMAIN txn[p].trades) + 1
                  /\ txn'[p].orders[req[p].oid].filled_kopecks
                       > txn[p].orders[req[p].oid].filled_kopecks
                  /\ txn'[p].orders[req[p].oid].filled_kopecks
                       <= txn[p].orders[req[p].oid].amount_kopecks
            /\ ( /\ pc[p] = "pb_match"
                 /\ Cardinality(DOMAIN txn[p].trades) = MAX_TRADES_PER_ORDER
                 /\ << pc[p], txn[p] >>' # << pc[p], txn[p] >> ) => PlaceCommits(p)
            /\ HitsBound(p) =>
                  /\ orders'[req[p].oid].status = "partial"
                  /\ orders'[req[p].oid].filled_kopecks
                       = orders'[req[p].oid].amount_kopecks - Remaining(p)
                  /\ Cardinality(DOMAIN trades') = Cardinality(DOMAIN trades)
                                                     + MAX_TRADES_PER_ORDER
                  /\ \A o \in (DOMAIN orders) \ Reached(p) : orders'[o] = orders[o]]_vars

C20_Witness ==
    /\ AtRest
    /\ Cardinality(DOMAIN trades) = MAX_TRADES_PER_ORDER
    /\ orders[BookDepth + 1].amount_kopecks = MIN_ORDER_SIZE_KOPECKS * BookDepth
    /\ orders[BookDepth + 1].filled_kopecks = MIN_ORDER_SIZE_KOPECKS * MAX_TRADES_PER_ORDER
    /\ orders[BookDepth + 1].status = "partial"
    /\ orders[BookDepth].status = "open"
    /\ orders[BookDepth].filled_kopecks = 0

\* ----------------------------------------------------------------------- C21
\* Handler p answers its place_bet with a 500 after the order insert.
PlaceFails(p) ==
    /\ pc[p] = "pb_match"
    /\ pc'[p] = "idle"
    /\ req'[p].op = "failed"

\* C21: when a place_bet fails after the order insert and the caller gets an
\* error, nothing of it survives: no order, no order_lock entry, no trade,
\* no change to a resting order or to the ledger.
C21_Claimed ==
    [][\A p \in Procs :
         PlaceFails(p) =>
             /\ req[p].oid \notin DOMAIN orders'
             /\ orders' = orders
             /\ trades' = trades
             /\ ledger' = ledger]_vars

\* ----------------------------------------------------------------------- C22
\* A request that has to be refused: no such market, market resolved, size
\* outside 100..100,000,000 kopecks, or more than the user has available.
Invalid(user, market_id, amount_kopecks) ==
    \/ market_id \notin DOMAIN markets
    \/ markets[market_id].resolved
    \/ amount_kopecks < 100
    \/ amount_kopecks > 100000000
    \/ amount_kopecks > get_balance(user, ledger).available_kopecks

\* C22: a place_bet for a missing or resolved market, for less than 100 or
\* more than 100,000,000 kopecks, or for more than the user's available
\* balance is rejected and creates no order and no ledger entry: a request
\* that gets as far as an order is none of these, and a refused one leaves
\* orders, ledger, the order id sequence and the session's writes untouched.
C22_Rejects ==
    [][\A p \in Procs :
         pc[p] = "idle" =>
            /\ (req'[p].op = "place_bet" /\ req'[p] # req[p]) =>
                 ~ Invalid(req'[p].user, req'[p].market,
                           txn'[p].orders[req'[p].oid].amount_kopecks)
            /\ (req'[p].op = "rejected" /\ req'[p] # req[p]) =>
                 /\ orders' = orders
                 /\ ledger' = ledger
                 /\ trades' = trades
                 /\ nextOrderId' = nextOrderId
                 /\ txn'[p] = EmptyTxn
                 /\ pc'[p] = "idle"]_vars

C22_Witness ==
    /\ AtRest
    /\ req[1].op = "rejected"
    /\ req[1].user = 1
    /\ req[1].market = 1
    /\ req[1].cached = 100
    /\ ~ markets[1].resolved
    /\ get_balance(1, ledger).available_kopecks = 0
    /\ \E o \in DOMAIN orders : orders[o].user_id = 1 /\ orders[o].amount_kopecks = 5000

\* ----------------------------------------------------------------------- C28
\* User u holds orders, all of them on market m and all of them filled.
OnlyFilledOn(u, m) ==
    /\ \E o \in DOMAIN orders : orders[o].user_id = u
    /\ \A o \in DOMAIN orders :
          orders[o].user_id = u =>
              orders[o].market_id = m /\ orders[o].status = "filled"

\* C28: once a market is resolved, the balance readout reports a locked
\* amount of 0 for every user whose only positions were fully filled orders
\* on that market, winner and loser alike.
C28_Claimed ==
    \A m \in DOMAIN markets : \A u \in Users :
        (AtRest /\ markets[m].resolved /\ OnlyFilledOn(u, m)) =>
            get_balance(u, ledger).locked_amount = 0

\* ----------------------------------------------------------------------- C30
\* What the resolution committed by handler p writes for trade t, given
\* whether a fee entry is expected for it: the winner's payout of the whole
\* amount and the fee entry, nothing else that refers to t, nothing for the
\* owner of the losing order, whose trade_lock is still in the ledger.
SettlesTrade(p, t, with_fee) ==
    LET tr     == trades[t]
        win    == IF req[p].outcome = "yes" THEN tr.yes_order_id ELSE tr.no_order_id
        lose   == IF req[p].outcome = "yes" THEN tr.no_order_id ELSE tr.yes_order_id
        w      == orders[win].user_id
        l      == orders[lose].user_id
        payout == Entry(w, tr.amount_kopecks, "payout", t)
        fee    == Entry(w, 0 - TwoPercent(tr.amount_kopecks), "fee", t)
        new    == ledger' (-) ledger
    IN /\ CopiesIn(payout, new) = 1
       /\ CopiesIn(fee, new) = (IF with_fee THEN 1 ELSE 0)
       /\ \A e \in BagToSet(new) : e.reference_id = t => e \in {payout, fee}
       /\ l # w => \A e \in BagToSet(new) : e.reference_id = t => e.user_id # l
       /\ \E e \in BagToSet(ledger') :
             e.user_id = l /\ e.type = "trade_lock" /\ e.reference_id = t

C26_RetryBudget ==
    /\ [](\A w \in Workers :
            /\ indexer[w].sent <= API_RETRY_ATTEMPTS
            /\ indexer[w].at = "fetch" => indexer[w].sent < API_RETRY_ATTEMPTS)
    /\ [][\A w \in Workers :
            /\ \A r \in Responses :
                  RequestAttempt(w, r) =>
                      /\ r.status \in {0, 429, 503} =>
                            /\ indexer'[w].at = "backoff"
                            /\ indexer'[w].raised = "none"
                      /\ r.status = 404 =>
                            /\ indexer'[w].at = "sleep"
                            /\ indexer'[w].raised = "TonCenterError"
            /\ RequestBackoff(w) =>
                  IF indexer[w].sent < API_RETRY_ATTEMPTS
                  THEN /\ indexer'[w].at = "fetch"
                       /\ indexer'[w].raised = "none"
                  ELSE /\ indexer'[w].at = "sleep"
                       /\ indexer'[w].raised \in {"TonCenterError", "RateLimitError"}]_vars

\* Three attempts were answered 429 and the request raised RateLimitError.
C26_Witness ==
    \E w \in Workers :
        /\ indexer[w].at = "sleep"
        /\ indexer[w].raised = "RateLimitError"

\* ----------------------------------------------------------------------- C27
\* The transactions C27 names: not successful, below the minimum deposit, a
\* body shorter than 12 bytes, or a body that does not start with opcode 1.
NotADeposit(tx) ==
    \/ ~ tx.success
    \/ tx.value_nanoton < MIN_DEPOSIT_NANOTON
    \/ Len(tx.body_data) < 12
    \/ SubSeq(tx.body_data, 1, 4) # << 0, 0, 0, 1 >>

\* Worker w handles the next transaction of its poll in this step.
Processes(w) ==
    /\ indexer[w].at = "process"
    /\ indexer'[w] # indexer[w]

\* C27: processing a transaction that is not successful, is below the
\* minimum, or whose body is short or has another opcode writes nothing: no
\* ledger entry, no TonTransaction row and no User row, committed or flushed,
\* and the indexer moves on to the next transaction.
C27_Skips ==
    [][\A w \in Workers :
          (Processes(w) /\ NotADeposit(Head(indexer[w].queue))) =>
              /\ ledger' = ledger
              /\ tonTx' = tonTx
              /\ users' = users
              /\ ~ indexer'[w].session.open
              /\ indexer'[w].queue = Tail(indexer[w].queue)]_vars

\* A poll has credited the deposit of user 1 and passed the bounced, the
\* small, the short and the wrong-opcode transactions: telegram id 3, which
\* they carry, has no User row, and no record or entry was added for them.
C27_Witness ==
    \E w \in Workers :
        /\ indexer[w].at = "process"
        /\ Head(indexer[w].queue).hash = "h7"
        /\ { t.tx_hash : t \in tonTx } = {"h1"}
        /\ users = Users
        /\ BagToSet(ledger) = { Entry(1, _convert_to_kopecks(MIN_DEPOSIT_NANOTON),
                                      "deposit", 0) }
        /\ CopiesIn(Entry(1, _convert_to_kopecks(MIN_DEPOSIT_NANOTON), "deposit", 0),
                    ledger) = 1

\* ----------------------------------------------------------------------- C23
\* The deposit entry _credit_deposit writes for transaction tx.
DepositEntryOf(tx) ==
    Entry(parse_deposit_memo(tx.body_data), _convert_to_kopecks(tx.value_nanoton),
          "deposit", 0)

RecordsOf(hash) == { t \in tonTx : t.tx_hash = hash }

\* C23: whatever the two indexers do, one after the other or at once, every
\* chain hash has at most one TonTransaction row and as many deposit entries
\* as rows; and a step that handles a transaction whose hash already has its
\* row changes neither the ledger nor the rows nor the users.
C23_ExactlyOnce ==
    /\ [](\A i \in DOMAIN ApiTxs :
            /\ Cardinality(RecordsOf(ApiTxs[i].hash)) <= 1
            /\ CopiesIn(DepositEntryOf(ApiTxs[i]), ledger)
                   = Cardinality(RecordsOf(ApiTxs[i].hash)))
    /\ [][\A w \in Workers :
            ( /\ indexer[w].at \in {"process", "credit"}
              /\ indexer'[w] # indexer[w]
              /\ RecordsOf(Head(indexer[w].queue).hash) # {} ) =>
                 /\ ledger' = ledger
                 /\ tonTx' = tonTx
                 /\ users' = users]_vars

\* Deposit h1 is committed once; one worker has met it again in its second
\* poll, and the other has flushed its own rows for h1 in a session opened
\* before the commit.
C23_Witness ==
    \E w, v \in Workers :
        /\ w # v
        /\ indexer[w].at = "credit"
        /\ indexer[w].session.hash = "h1"
        /\ Cardinality(RecordsOf("h1")) = 1
        /\ CopiesIn(DepositEntryOf(ApiTxs[1]), ledger) = 1
        /\ indexer[v].polls = 2
        /\ indexer[v].at = "process"
        /\ Head(indexer[v].queue).hash = "h2"

\* ----------------------------------------------------------------------- C24
\* The processing of worker w's current transaction raises in this step.
Fails(w) ==
    /\ indexer[w].at = "credit"
    /\ indexer'[w].last = "failed"

\* C24: when the processing of a transaction raises, nothing of it is
\* committed, the indexer keeps running and goes on with the rest of the
\* poll's transactions; while the indexer is not stopped its next poll can
\* start; and the ledger never holds a deposit entry without its
\* TonTransaction row.
C24_FailureContinues ==
    /\ [][\A w \in Workers :
            Fails(w) =>
                /\ ledger' = ledger
                /\ tonTx' = tonTx
                /\ users' = users
                /\ indexer'[w]._running
                /\ indexer'[w].queue = Tail(indexer[w].queue)
                /\ indexer'[w].at = IF indexer'[w].queue # << >> THEN "process"
                                    ELSE "sleep"]_vars
    /\ [](\A w \in Workers :
            ( /\ indexer[w].failed # {}
              /\ indexer[w].at = "sleep"
              /\ indexer[w].polls < MaxPolls ) => ENABLED PollBegin(w))
    /\ [](BagCardinality(ledger) = Cardinality(tonTx))

\* Alone, a worker failed on h1 in its first poll, credited h8 later in that
\* poll (row 1), and credited h1 in its second poll (row 2).
C24_Witness ==
    \E w, v \in Workers :
        /\ indexer[v].at = "none"
        /\ indexer[w].failed = {"h1"}
        /\ indexer[w].polls = 2
        /\ \E t \in tonTx : t.tx_hash = "h8" /\ t.id = 1
        /\ \E t \in tonTx : t.tx_hash = "h1" /\ t.id = 2
        /\ CopiesIn(DepositEntryOf(ApiTxs[1]), ledger) = 1

\* ----------------------------------------------------------------------- C25
\* stop() acts on worker w in this step.
Stops(w) ==
    /\ indexer[w]._running
    /\ ~ indexer'[w]._running

\* C25 as stated: stop() takes effect only between iterations, before the
\* first poll or in the sleep that follows a poll, never inside a poll that
\* has started; and a stopped indexer starts no further poll.
C25_Claimed ==
    [][\A w \in Workers :
          /\ Stops(w) => indexer[w].at \in {"created", "sleep"}
          /\ ~ indexer[w]._running /\ indexer[w].at = "cancelled" =>
                indexer'[w].polls = indexer[w].polls]_vars

\* ----------------------------------------------------------------------- C29
\* C29 as stated, for its first step: a user with money in the ledger can
\* create a withdrawal of some amount, and the creation appends a negative
\* entry for that user that locks the amount.
C29_Claimed ==
    \A u \in Users :
        (AtRest /\ get_balance(u, ledger).available_kopecks >= _convert_to_kopecks(MIN_DEPOSIT_NANOTON)) =>
            \E amount_nanoton \in {20000, MIN_DEPOSIT_NANOTON \div 2} :
                ENABLED ( /\ CreateWithdrawal(1, u, amount_nanoton)
                          /\ \E e \in BagToSet(ledger') :
                                /\ e.user_id = u
                                /\ e.amount_kopecks < 0
                                /\ CopiesIn(e, ledger') = CopiesIn(e, ledger) + 1 )

\* ----------------------------------------------------------------------- C31
\* The resolve request of handler p ends in this step without success: the
\* re-check or the sum check of settle_market raised, or the commit did.
SettlementFails(p) ==
    /\ pc[p] \in {"rs_settle", "rs_commit"}
    /\ pc'[p] = "idle"
    /\ resolveOk' = resolveOk

\* C31: a settlement that fails leaves the markets, the ledger, the orders
\* and the trades as they were, and frees the market row; and while a market
\* is unresolved no payout or fee entry references one of its trades.
C31_AllOrNothing ==
    /\ [][\A p \in Procs :
            SettlementFails(p) =>
                /\ markets' = markets
                /\ ledger' = ledger
                /\ orders' = orders
                /\ trades' = trades
                /\ marketLock'[req[p].market] # p]_vars
    /\ [](\A m \in Markets :
            ~ markets[m].resolved =>
                ~ \E e \in BagToSet(ledger) :
                     /\ e.type \in {"payout", "fee"}
                     /\ e.reference_id \in MarketTrades(m))

\* The resolution of market 1, which has a trade, failed after its entries
\* were flushed: the market is unresolved and no payout entry exists.
C31_Witness ==
    \E p \in Procs :
        /\ pc[p] = "idle"
        /\ req[p].op = "failed"
        /\ req[p].trade_ids # {}
        /\ ~ markets[1].resolved
        /\ ~ \E e \in BagToSet(ledger) : e.type \in {"payout", "fee"}

\* ----------------------------------------------------------------------- C32
\* What is left to fill of order o as handler p sees it.
Unfilled(p, o) == ViewOf(p)[o].amount_kopecks - ViewOf(p)[o].filled_kopecks

\* C32: the amount of every fill is the smaller of the two orders' unfilled
\* remainders and is positive, both orders' filled_kopecks grow by exactly
\* that amount, and so after the fill at least one of the two is filled.
C32_FillIsMin ==
    [][\A p \in Procs :
          Fills(p) =>
              LET t     == txn'[p].trades[nextTradeId]
                  y     == t.yes_order_id
                  n     == t.no_order_id
                  after == Overlay(orders', txn'[p].orders)
                  left(o) == after[o].amount_kopecks - after[o].filled_kopecks
              IN /\ t.amount_kopecks > 0
                 /\ t.amount_kopecks
                      = (IF Unfilled(p, y) < Unfilled(p, n) THEN Unfilled(p, y)
                                                            ELSE Unfilled(p, n))
                 /\ left(y) = Unfilled(p, y) - t.amount_kopecks
                 /\ left(n) = Unfilled(p, n) - t.amount_kopecks
                 /\ after[y].amount_kopecks = ViewOf(p)[y].amount_kopecks
                 /\ after[n].amount_kopecks = ViewOf(p)[n].amount_kopecks
                 /\ \/ after[y].status = "filled" /\ left(y) = 0
                    \/ after[n].status = "filled" /\ left(n) = 0]_vars

\* A larger YES order was resting and a smaller NO order arrived: the NO
\* order is filled, the YES order is partial with the NO order's amount
\* filled, and there is exactly one trade.
C32_Witness ==
    /\ AtRest
    /\ Cardinality(DOMAIN trades) = 1
    /\ \E y, n \in DOMAIN orders :
          /\ y < n
          /\ orders[y].side = "yes" /\ orders[n].side = "no"
          /\ orders[y].amount_kopecks > orders[n].amount_kopecks
          /\ orders[n].status = "filled"
          /\ orders[n].filled_kopecks = orders[n].amount_kopecks
          /\ orders[y].status = "partial"
          /\ orders[y].filled_kopecks = orders[n].amount_kopecks
          /\ \E t \in DOMAIN trades :
                /\ trades[t].yes_order_id = y /\ trades[t].no_order_id = n
                /\ trades[t].amount_kopecks = orders[n].amount_kopecks

\* ----------------------------------------------------------------------- C33
\* C33 as stated: every TonTransaction row has status credited and a deposit
\* entry of its user whose reference_id is the row's id.
C33_Claimed ==
    \A t \in tonTx :
        /\ t.status = "credited"
        /\ \E e \in BagToSet(ledger) :
              /\ e.type = "deposit"
              /\ e.user_id = t.user_id
              /\ e.reference_id = t.id

\* ----------------------------------------------------------------------- C34
\* C34: with one request at a time, whenever no request is in progress every
\* user's ledger total is at least 0, so the available balance is the total
\* itself and the clamp at 0 changes nothing.
C34_TotalNonNegative ==
    AtRest =>
        \A u \in Users :
            /\ get_user_balance(u, ledger) >= 0
            /\ get_available_balance(u, ledger) = get_user_balance(u, ledger)

\* After deposits, a matched pair, a cancelled order and the resolution: the
\* loser holds less than the deposit, the winner more, both totals positive.
C34_Witness ==
    /\ AtRest
    /\ markets[1].resolved
    /\ trades # << >>
    /\ \E o \in DOMAIN orders : orders[o].status = "cancelled"
    /\ \E u, v \in Users :
          /\ get_user_balance(u, ledger) > 0
          /\ get_user_balance(u, ledger) < SumType(ledger, {"deposit"}) \div 2
          /\ get_user_balance(v, ledger) > SumType(ledger, {"deposit"}) \div 2

\* ----------------------------------------------------------------------- C35
\* Sum of the order_unlock entries that reference order o.
Unlocked(o) ==
    SumRows(ledger, { e \in BagToSet(ledger) :
                        e.type = "order_unlock" /\ e.reference_id = o })

\* C35 as stated: whatever the interleaving of cancels and fills, the
\* order_unlock entries of an order never add up to more than its amount.
C35_Claimed ==
    \A o \in DOMAIN orders : Unlocked(o) <= orders[o].amount_kopecks

\* ----------------------------------------------------------------------- C36
\* C36 as stated: in every trade the YES side pays at most the amount at its
\* own price and the NO side at most the amount at its own price, rounded up.
C36_Claimed ==
    \A t \in DOMAIN trades :
        LET tr == trades[t]
            yes_order == orders[tr.yes_order_id]
            no_order  == orders[tr.no_order_id]
        IN /\ tr.yes_cost_kopecks * 10000 <= tr.amount_kopecks * yes_order.price_bp
           /\ tr.no_cost_kopecks
                <= (tr.amount_kopecks * no_order.price_bp + 9999) \div 10000

\* ----------------------------------------------------------------------- C37
\* Sum of the order_lock and order_unlock entries of L that reference order o.
OrderLockSum(L, o) ==
    SumRows(L, { e \in BagToSet(L) :
                   e.type \in {"order_lock", "order_unlock"} /\ e.reference_id = o })

\* C37: a resolution changes no order and adds only payout and fee entries;
\* every order keeps its status, its filled_kopecks and the sum of its lock
\* and unlock entries.
C37_OrdersUntouched ==
    [][\A p \in Procs :
          (Resolves(p) /\ resolveOk' # resolveOk) =>
              /\ orders' = orders
              /\ \A e \in BagToSet(ledger' (-) ledger) : e.type \in {"payout", "fee"}
              /\ \A o \in DOMAIN orders :
                    OrderLockSum(ledger', o) = OrderLockSum(ledger, o)]_vars

\* Market 1 is resolved with a trade paid out; one of its orders is still
\* partial and another still open, each with its remainder locked.
C37_Witness ==
    /\ AtRest
    /\ markets[1].resolved
    /\ \E e \in BagToSet(ledger) : e.type = "payout"
    /\ \E o \in DOMAIN orders :
          /\ orders[o].status = "partial"
          /\ OrderLockSum(ledger, o)
                = 0 - (orders[o].amount_kopecks - orders[o].filled_kopecks)
    /\ \E o \in DOMAIN orders :
          /\ orders[o].status = "open"
          /\ OrderLockSum(ledger, o) = 0 - orders[o].amount_kopecks

\* ----------------------------------------------------------------------- C38
\* C38 as stated: when the matching loop of handler p has ended with the
\* aggressor not filled and fewer than MAX_TRADES_PER_ORDER trades made, no
\* open or partial order of the other side of that market passes the filter
\* of find_best_match for the aggressor.
C38_Claimed ==
    [][\A p \in Procs :
          ( /\ PlaceCommits(p)
            /\ Remaining(p) > 0
            /\ Cardinality(DOMAIN txn[p].trades) < MAX_TRADES_PER_ORDER ) =>
               ~ \E c \in DOMAIN ViewOf(p) : MatchFilter(Aggressor(p), ViewOf(p)[c])]_vars

\* ----------------------------------------------------------------------- C39
\* What an order still holds locked according to its own row.
OrderHolds(o) ==
    IF orders[o].status = "cancelled"
    THEN 0
    ELSE orders[o].amount_kopecks - orders[o].filled_kopecks

\* C39: in every at-rest state reached by sequential operations, the
\* order_lock and order_unlock entries that reference an order sum to
\* -(amount_kopecks - filled_kopecks) if the order is open, partial or filled,
\* and to 0 if it is cancelled.
C39_LockMatchesRemainder ==
    AtRest =>
        \A o \in DOMAIN orders :
            /\ orders[o].status \in {"open", "partial", "filled", "cancelled"}
            /\ OrderLockSum(ledger, o) = 0 - OrderHolds(o)

\* An at-rest state with a cancelled order, a partly filled order and a
\* filled order, each with its lock entries written.
C39_Witness ==
    /\ AtRest
    /\ \E c, f, q \in DOMAIN orders :
          /\ orders[c].status = "cancelled"
          /\ OrderLockSum(ledger, c) = 0
          /\ SumRows(ledger, { e \in BagToSet(ledger) :
                                 e.type = "order_lock" /\ e.reference_id = c })
                = 0 - orders[c].amount_kopecks
          /\ orders[f].status = "filled"
          /\ OrderLockSum(ledger, f) = 0
          /\ orders[q].status = "partial"
          /\ orders[q].filled_kopecks > 0
          /\ OrderLockSum(ledger, q)
                = orders[q].filled_kopecks - orders[q].amount_kopecks

\* ----------------------------------------------------------------------- C40
\* Sum of amount_kopecks over the trades that reference order o as yes_order
\* or no_order.
TradedAmount(o) == SumAmounts(trades, TradesOf(o, trades))

\* C40: in every at-rest state each order's filled_kopecks equals the sum of
\* amount_kopecks over the trades that reference it as yes_order or no_order.
C40_FilledIsTradeSum ==
    AtRest =>
        \A o \in DOMAIN orders : orders[o].filled_kopecks = TradedAmount(o)

\* An at-rest state with an order filled by two trades, an order filled by
\* one trade and an order without trades.
C40_Witness ==
    /\ AtRest
    /\ \E a, b \in DOMAIN orders :
          /\ Cardinality(TradesOf(a, trades)) = 2
          /\ orders[a].filled_kopecks = TradedAmount(a)
          /\ \A t \in TradesOf(a, trades) :
                trades[t].amount_kopecks < orders[a].filled_kopecks
          /\ Cardinality(TradesOf(b, trades)) = 1
          /\ orders[b].filled_kopecks = TradedAmount(b)
          /\ orders[b].filled_kopecks > 0
====
